---- MODULE Spec2Model ----
\* A model of gorequests' Response (src/response.go): the lazy
\* decode-and-cache layer over an http.Response body.
\*
\* The body is a byte stream; bytes are naturals 0..255.  The compress/gzip and
\* compress/zlib readers the code wraps around the body are modelled at the
\* byte level for streams made of stored (uncompressed) deflate blocks: real
\* headers, real block framing, real Adler-32 and CRC-32 trailers.
EXTENDS Integers, Sequences, FiniteSets, TLC

\* ---------------------------------------------------------------- bounds

\* Longest decoded payload the server sends.
MaxLen == 2

\* Most materialization attempts that reach the body stream in one run.
MaxBodyReads == 2

\* ------------------------------------------------------- bytes and sums

Min(a, b) == IF a < b THEN a ELSE b

\* Bitwise exclusive or of two naturals.
RECURSIVE Xor(_, _)
Xor(a, b) ==
    IF a = 0 THEN b
    ELSE IF b = 0 THEN a
    ELSE (((a % 2) + (b % 2)) % 2) + (2 * Xor(a \div 2, b \div 2))

\* A 32-bit word is kept as two 16-bit halves <<hi, lo>>.
Word == (0..65535) \X (0..65535)

\* One bit step of the reflected CRC-32 (polynomial 0xEDB88320 = 60856, 33568).
CrcShift[w \in Word] ==
    LET hi == w[1] \div 2
        lo == (w[2] \div 2) + ((w[1] % 2) * 32768)
    IN  IF w[2] % 2 = 1 THEN <<Xor(hi, 60856), Xor(lo, 33568)>> ELSE <<hi, lo>>

RECURSIVE CrcBits(_, _)
CrcBits(w, k) == IF k = 0 THEN w ELSE CrcBits(CrcShift[w], k - 1)

\* hash/crc32 simpleUpdate for one byte v: crc = tab[byte(crc) ^ v] ^ (crc >> 8),
\* where tab[i], an entry of the IEEE table, is i pushed through eight bit steps.
CrcByte[x \in Word \X (0..255)] ==
    LET w  == x[1]
        t  == CrcBits(<<0, Xor(w[2] % 256, x[2])>>, 8)
        hi == w[1] \div 256
        lo == (w[2] \div 256) + ((w[1] % 256) * 256)
    IN  <<Xor(t[1], hi), Xor(t[2], lo)>>

RECURSIVE CrcUpdate(_, _)
CrcUpdate(w, s) == IF s = <<>> THEN w ELSE CrcUpdate(CrcByte[<<w, Head(s)>>], Tail(s))

\* hash/crc32 ChecksumIEEE, as the four little-endian bytes of the gzip trailer.
Crc32LE(s) ==
    LET w  == CrcUpdate(<<65535, 65535>>, s)
        hi == Xor(w[1], 65535)
        lo == Xor(w[2], 65535)
    IN  <<lo % 256, lo \div 256, hi % 256, hi \div 256>>

\* hash/adler32 for one byte: a += v, b += a, both modulo 65521.
AdlerByte[x \in Word \X (0..255)] ==
    LET a2 == (x[1][1] + x[2]) % 65521
    IN  <<a2, (x[1][2] + a2) % 65521>>

RECURSIVE AdlerPair(_, _)
AdlerPair(p, s) == IF s = <<>> THEN p ELSE AdlerPair(AdlerByte[<<p, Head(s)>>], Tail(s))

\* hash/adler32 Checksum, as the four big-endian bytes of the zlib trailer.
Adler32BE(s) ==
    LET p == AdlerPair(<<1, 0>>, s)
    IN  <<p[2] \div 256, p[2] % 256, p[1] \div 256, p[1] % 256>>

\* ISIZE of the gzip trailer: the payload length, little-endian over 4 bytes.
SizeLE(s) == <<Len(s) % 256, (Len(s) \div 256) % 256, 0, 0>>

\* ------------------------------------------------------ stream encodings

\* One final stored deflate block: BFINAL=1/BTYPE=00, LEN, NLEN = ~LEN, data.
StoredBlock(p) ==
    <<1, Len(p) % 256, Len(p) \div 256,
      (65535 - Len(p)) % 256, (65535 - Len(p)) \div 256>> \o p

\* A gzip member: ID1 ID2 CM FLG MTIME(4) XFL OS, deflate data, CRC-32, ISIZE.
GzipHeader == <<31, 139, 8, 0, 0, 0, 0, 0, 0, 255>>
GzipEncode(p) == GzipHeader \o StoredBlock(p) \o Crc32LE(p) \o SizeLE(p)

\* A zlib stream: CMF FLG, deflate data, Adler-32.
ZlibHeader == <<120, 1>>
ZlibEncode(p) == ZlibHeader \o StoredBlock(p) \o Adler32BE(p)

\* ------------------------------------------------------ stream decoders
\* A byte source is [data, end]: the bytes still to come and what a read
\* past them reports ("EOF" for io.EOF, or the name of a failure).

\* io.ReadFull / flate's noEOF: running dry inside a unit is unexpected.
NoEOF(end) == IF end = "EOF" THEN "ErrUnexpectedEOF" ELSE end

Drop(d, n) == SubSeq(d, n + 1, Len(d))

\* compress/flate over stored blocks: [err, out, rest].
RECURSIVE Inflate(_, _)
Inflate(d, end) ==
    IF d = <<>> THEN [err |-> NoEOF(end), out |-> <<>>, rest |-> <<>>]
    ELSE LET btype == (d[1] \div 2) % 4
             final == (d[1] % 2) = 1
         IN  IF btype = 3
             THEN [err |-> "flate.CorruptInputError", out |-> <<>>, rest |-> <<>>]
             ELSE IF btype # 0
             THEN [err |-> "flate.HuffmanBlockNotModelled", out |-> <<>>, rest |-> <<>>]
             ELSE IF Len(d) < 5
             THEN [err |-> NoEOF(end), out |-> <<>>, rest |-> <<>>]
             ELSE LET n    == d[2] + (256 * d[3])
                      nn   == d[4] + (256 * d[5])
                  IN  IF nn # 65535 - n
                      THEN [err |-> "flate.CorruptInputError", out |-> <<>>, rest |-> <<>>]
                      ELSE IF Len(d) < 5 + n
                      THEN [err |-> NoEOF(end), out |-> Drop(d, 5), rest |-> <<>>]
                      ELSE LET blk == SubSeq(d, 6, 5 + n)
                               rem == Drop(d, 5 + n)
                           IN  IF final
                               THEN [err |-> "", out |-> blk, rest |-> rem]
                               ELSE LET more == Inflate(rem, end)
                                    IN  [more EXCEPT !.out = blk \o more.out]

\* gzip.Reader.readHeader: [err, rest].  A source with nothing left reports
\* its end as it is (io.EOF); optional fields (FLG # 0) are not modelled.
GzipReadHeader(d, end) ==
    IF d = <<>> THEN [err |-> end, rest |-> <<>>]
    ELSE IF Len(d) < 10 THEN [err |-> NoEOF(end), rest |-> <<>>]
    ELSE IF <<d[1], d[2], d[3]>> # <<31, 139, 8>> THEN [err |-> "gzip.ErrHeader", rest |-> <<>>]
    ELSE IF d[4] # 0 THEN [err |-> "gzip.FlagsNotModelled", rest |-> <<>>]
    ELSE [err |-> "", rest |-> Drop(d, 10)]

\* gzip.NewReader: reads the first member's header.
GzipNewReader(src) == GzipReadHeader(src.data, src.end)

Prepend(out, r) == [r EXCEPT !.out = out \o r.out]

\* ioutil.ReadAll over a gzip.Reader positioned after a header: [err, out].
\* GzipTrailer checks the CRC-32 and ISIZE that follow the deflate data f;
\* GzipNext reads the next member's header h: members are concatenated
\* (multistream) until a header read reports io.EOF.
RECURSIVE GzipReadAll(_, _)
RECURSIVE GzipTrailer(_, _)
RECURSIVE GzipNext(_, _, _)
GzipNext(f, h, end) ==
    IF h.err = "EOF" THEN [err |-> "", out |-> f.out]
    ELSE IF h.err # "" THEN [err |-> h.err, out |-> f.out]
    ELSE Prepend(f.out, GzipReadAll(h.rest, end))

GzipTrailer(f, end) ==
    IF f.err # "" THEN [err |-> f.err, out |-> f.out]
    ELSE IF Len(f.rest) < 8 THEN [err |-> NoEOF(end), out |-> f.out]
    ELSE IF SubSeq(f.rest, 1, 8) # Crc32LE(f.out) \o SizeLE(f.out)
    THEN [err |-> "gzip.ErrChecksum", out |-> f.out]
    ELSE GzipNext(f, GzipReadHeader(Drop(f.rest, 8), end), end)

GzipReadAll(d, end) == GzipTrailer(Inflate(d, end), end)

\* zlib.NewReader: [err, rest].
ZlibNewReader(src) ==
    LET d == src.data
    IN  IF Len(d) < 2 THEN [err |-> NoEOF(src.end), rest |-> <<>>]
        ELSE IF (d[1] % 16 # 8) \/ (d[1] \div 16 > 7) \/ (((256 * d[1]) + d[2]) % 31 # 0)
        THEN [err |-> "zlib.ErrHeader", rest |-> <<>>]
        ELSE IF (d[2] \div 32) % 2 = 1
        THEN IF Len(d) < 6 THEN [err |-> NoEOF(src.end), rest |-> <<>>]
             ELSE IF SubSeq(d, 3, 6) # Adler32BE(<<>>)
             THEN [err |-> "zlib.ErrDictionary", rest |-> <<>>]
             ELSE [err |-> "", rest |-> Drop(d, 6)]
        ELSE [err |-> "", rest |-> Drop(d, 2)]

\* The Adler-32 that follows the deflate data f of a zlib stream.
ZlibTrailer(f, end) ==
    IF f.err # "" THEN [err |-> f.err, out |-> f.out]
    ELSE IF Len(f.rest) < 4 THEN [err |-> NoEOF(end), out |-> f.out]
    ELSE IF SubSeq(f.rest, 1, 4) # Adler32BE(f.out)
    THEN [err |-> "zlib.ErrChecksum", out |-> f.out]
    ELSE [err |-> "", out |-> f.out]

\* ioutil.ReadAll over a zlib reader positioned after the header: [err, out].
ZlibReadAll(d, end) == ZlibTrailer(Inflate(d, end), end)

\* encoding/json on a payload of digits and letters: the only valid documents
\* are integer literals without a leading zero.
IsValidJSON(s) ==
    /\ Len(s) > 0
    /\ \A i \in 1..Len(s) : s[i] \in 48..57
    /\ (s[1] = 48 => Len(s) = 1)

\* Where the integer literal that opens s ends: after a leading zero, else
\* after the last of its leading digits.
IntEnd(s) ==
    IF s[1] = 48 THEN 1
    ELSE CHOOSE k \in 1..Len(s) :
            /\ \A i \in 1..k : s[i] \in 48..57
            /\ (k < Len(s) => s[k + 1] \notin 48..57)

\* simplejson.NewJson(body): json.NewDecoder(body).Decode, which decodes the
\* first value and leaves what follows it unread; nothing to decode is
\* io.EOF.  Over digits and letters a value is an integer literal; a fraction
\* or exponent after it is not modelled.
NewJson(s) ==
    IF s = <<>> THEN "EOF"
    ELSE IF s[1] \notin 48..57 THEN "json.SyntaxError"
    ELSE IF IntEnd(s) < Len(s) /\ s[IntEnd(s) + 1] \in {46, 69, 101}
    THEN "json.NumberTailNotModelled"
    ELSE ""

\* The errors with which a parser says that the payload is no JSON document.
IsParseFailure(e) == e \in {"json.SyntaxError", "EOF"}

\* ------------------------------------------------------------- the state

VARIABLES
    StatusCode,  \* http.Response.StatusCode
    Header,      \* the value of Header.Get("Content-Encoding")
    Body,        \* http.Response.Body: [data, pos, broken, closed]
    content,     \* Response.content: [isNil, bytes]
    files,       \* the file system: path -> [exists, bytes]
    ret,         \* what the last call gave its caller: [op, kind, err, ...]
    pc,          \* "idle", or the place inside Close's io.Copy loop
    rd,          \* io.Copy's last (readSize, err) from Response.Read
    bodyReads,   \* loadContent executions that went on to read r.Body
    parseFailed, \* a JSON accessor has reported that the payload is no JSON
    ContentLength, \* http.Response.ContentLength (-1: not known)
    internalError  \* Response.internalError of the earlier implementation

vars == <<StatusCode, Header, Body, content, files, ret, pc, rd, bodyReads, parseFailed,
          ContentLength, internalError>>

StatusCodes == {199, 200, 399, 400, 500}
Encodings == {"", "gzip", "deflate", "br"}
PayloadBytes == {49, 120}
Payloads == UNION {[1..n -> PayloadBytes] : n \in 0..MaxLen}
ChopLast(d) == SubSeq(d, 1, Len(d) - 1)

\* What a server may send: a payload as it is, as a gzip member, as a zlib
\* stream, or either of those cut one byte short.
Bodies ==
    Payloads
        \cup {GzipEncode(p) : p \in Payloads}
        \cup {ZlibEncode(p) : p \in Payloads}
        \cup {ChopLast(GzipEncode(p)) : p \in Payloads}
        \cup {ChopLast(ZlibEncode(p)) : p \in Payloads}

\* "out" can be created; the directory of "nodir/out" does not exist.
Paths == {"out", "nodir/out"}
NoFile == [exists |-> FALSE, bytes |-> <<>>]
StaleFile == [exists |-> TRUE, bytes |-> <<120, 120, 120>>]

\* The buffer ioutil.Discard's ReadFrom hands to Read.
DiscardBufLen == 8192
BufLens == {0, 1, DiscardBufLen}

\* json.Unmarshal targets: *interface{} takes any document, *string no number.
JSONTargets == {"interface", "string"}

NilContent == [isNil |-> TRUE, bytes |-> <<>>]
NoRead == [n |-> 0, err |-> ""]

Ret(op, kind, err, val, isNil, n, ok, stage, path) ==
    [op |-> op, kind |-> kind, err |-> err, val |-> val, isNil |-> isNil,
     n |-> n, ok |-> ok, stage |-> stage, path |-> path]

NoRet == Ret("", "ok", "", <<>>, TRUE, 0, FALSE, "none", "")

\* While Close is inside its loop no call has ended since it began.
Running == Ret("Close", "running", "", <<>>, TRUE, 0, FALSE, "none", "")

\* --------------------------------------------------------------- the body

\* What reading r.Body yields now: a closed http body refuses every read; a
\* broken transport fails once the bytes it delivered are used up.
BodySource(b) ==
    IF b.closed THEN [data |-> <<>>, end |-> "ErrBodyClosed"]
    ELSE [data |-> Drop(b.data, b.pos), end |-> IF b.broken THEN "ErrNet" ELSE "EOF"]

\* The body after a reader has read it to its end (ioutil.ReadAll, or the
\* bufio.Reader the decompressors put in front of it, which takes all of a
\* body shorter than its 4096-byte buffer in its first fill).
Consumed(b) == IF b.closed THEN b ELSE [b EXCEPT !.pos = Len(b.data)]

\* r.Body.Close()
BodyClose(b) == [b EXCEPT !.closed = TRUE]

\* ------------------------------------------------------------ loadContent

\* A cache test on the length, which takes an empty payload for "not loaded".
IsCachedNonEmpty(c) == Len(c.bytes) # 0

\* `if r.content != nil`: an empty slice that is not nil counts as loaded.
IsCached(c) == ~c.isNil

\* The outcome of loadContent: the fields after it, the slice it returns, how
\* it ended ("ok", "err", or "panic" when it does not return), the error, the
\* stage that decided it ("cached", "setup", "read", "done") and whether it
\* went on to read r.Body.
Loaded(c, b, val, kind, err, stage) ==
    [content |-> c, Body |-> b, val |-> val, kind |-> kind, err |-> err,
     stage |-> stage, reads |-> IF stage = "cached" THEN 0 ELSE 1]

\* The deferred reader.Close() once `reader` holds a reader: a gzip or zlib
\* reader's Close leaves the stream it wraps open; otherwise reader is r.Body.
ReaderClose(enc, b) == IF enc \in {"gzip", "deflate"} THEN b ELSE BodyClose(b)

\* The deferred reader.Close() after the constructor failed: reader is a nil
\* *gzip.Reader (gzip) or a nil interface (zlib), and the call dereferences it.
NilReaderClose(c, b) ==
    Loaded(c, b, NilContent, "panic", "runtime.nilPointerDereference", "setup")

\* ioutil.ReadAll(reader), the `err != nil && err != io.EOF` test, the
\* assignment to r.content and the deferred Close.  ReadAll's slice is never
\* nil, also when it is empty.
ReadAllAndStore(c, b, enc, r) ==
    IF r.err # "" /\ r.err # "EOF"
    THEN Loaded(c, ReaderClose(enc, b), NilContent, "err", r.err, "read")
    ELSE LET got == [isNil |-> FALSE, bytes |-> r.out]
         IN  Loaded(got, ReaderClose(enc, b), got, "ok", "", "done")

\* What the switch makes of the body: [setup, err, out], setup being the
\* constructor's error and err, out what ioutil.ReadAll then returns.
Opened(r) == [setup |-> "", err |-> r.err, out |-> r.out]

GzipOpened(h, end) ==
    IF h.err # "" THEN [setup |-> h.err, err |-> "", out |-> <<>>]
    ELSE Opened(GzipReadAll(h.rest, end))

ZlibOpened(h, end) ==
    IF h.err # "" THEN [setup |-> h.err, err |-> "", out |-> <<>>]
    ELSE Opened(ZlibReadAll(h.rest, end))

\* The switch with a third case that takes "br" for gzip.
DecompressBr(enc, src) ==
    IF enc \in {"gzip", "br"} THEN GzipOpened(GzipNewReader(src), src.end)
    ELSE IF enc = "deflate" THEN ZlibOpened(ZlibNewReader(src), src.end)
    ELSE [setup |-> "", err |-> IF src.end = "EOF" THEN "" ELSE src.end, out |-> src.data]

Decompress(enc, src) ==
    IF enc = "gzip" THEN GzipOpened(GzipNewReader(src), src.end)
    ELSE IF enc = "deflate" THEN ZlibOpened(ZlibNewReader(src), src.end)
    ELSE [setup |-> "", err |-> IF src.end = "EOF" THEN "" ELSE src.end, out |-> src.data]

\* loadContent past the cache test, d being what the switch made of the body
\* and b the body after it has been read.
Decompressing(c, b, enc, d) ==
    IF d.setup # "" THEN NilReaderClose(c, b) ELSE ReadAllAndStore(c, b, enc, d)

\* Every source a body of the run can present, and Decompress of each under
\* each encoding, worked out once for the whole run.
Sources == [data : Bodies, end : {"EOF", "ErrNet", "ErrBodyClosed"}]

Decompressed == [x \in Encodings \X Sources |-> Decompress(x[1], x[2])] @@ <<>>

Materialize(c, b, enc) ==
    Decompressing(c, Consumed(b), enc, Decompressed[<<enc, BodySource(b)>>])

loadContent(c, b, enc) ==
    IF IsCached(c) THEN Loaded(c, b, c, "ok", "", "cached") ELSE Materialize(c, b, enc)

\* An accessor may start while the run's budget of body reads lasts.
CanLoad == IsCached(content) \/ bodyReads < MaxBodyReads

\* --------------------------------------------------------------- helpers

\* The test without its lower bound.
StatusBelow400(code) == code < 400

\* `r.StatusCode < 400 && r.StatusCode >= 200`
StatusOk(code) == code < 400 /\ code >= 200

\* bytes.NewReader(content).Read(p) with len(p) = plen: a fresh reader each
\* call, so it starts at offset 0; an empty reader reports io.EOF.
ReaderRead(bytes, plen) ==
    IF Len(bytes) = 0 THEN [n |-> 0, err |-> "EOF"]
    ELSE [n |-> Min(plen, Len(bytes)), err |-> ""]

\* json.Unmarshal(content, v)
Unmarshal(bytes, target) ==
    IF ~IsValidJSON(bytes) THEN "json.SyntaxError"
    ELSE IF target = "string" THEN "json.UnmarshalTypeError"
    ELSE ""

\* A create that opens an existing file without truncating it.
OsCreateNoTrunc(path) ==
    IF path = "out" THEN [err |-> "", file |-> [exists |-> TRUE, bytes |-> files[path].bytes]]
    ELSE [err |-> "os.ErrNotExist", file |-> NoFile]

\* os.Create(filename): [err, file].
OsCreate(path) ==
    IF path = "out" THEN [err |-> "", file |-> [exists |-> TRUE, bytes |-> <<>>]]
    ELSE [err |-> "os.ErrNotExist", file |-> NoFile]

\* How much of an n-byte write may reach the disk: nothing, all but the last
\* byte, or all of it.
WriteCuts(n) == {0, n} \cup {k \in {n - 1} : k >= 0}

\* f.Write(content) that gets k bytes onto the disk: [err, file].
FileWrite(file, bytes, k) ==
    [err |-> IF k < Len(bytes) THEN "io.ErrShortWrite" ELSE "",
     file |-> [file EXCEPT !.bytes = file.bytes \o SubSeq(bytes, 1, k)]]

\* --------------------------------------------------------------- actions

Init ==
    /\ StatusCode \in StatusCodes
    /\ Header \in Encodings
    /\ Body \in {[data |-> d, pos |-> 0, broken |-> br, closed |-> FALSE] :
                    d \in Bodies, br \in BOOLEAN}
    /\ content = NilContent
    /\ files \in {[p \in Paths |-> IF p = "out" THEN f ELSE NoFile] : f \in {NoFile, StaleFile}}
    /\ ret = NoRet
    /\ pc = "idle"
    /\ rd = NoRead
    /\ bodyReads = 0
    /\ parseFailed = FALSE
    /\ ContentLength = Len(Body.data)
    /\ internalError = ""

\* The fields a loadContent outcome leaves behind.
Apply(l) ==
    /\ content' = l.content
    /\ Body' = l.Body
    /\ bodyReads' = bodyReads + l.reads

Ok ==
    /\ pc = "idle"
    /\ ret' = Ret("Ok", "ok", "", <<>>, TRUE, 0, StatusOk(StatusCode), "none", "")
    /\ UNCHANGED <<ContentLength, internalError, StatusCode, Header, Body, content, files, pc, rd, bodyReads, parseFailed>>

\* Each accessor below is its body applied to the outcome l of its call of
\* loadContent.

ReadBody(l, plen) ==
    LET r == ReaderRead(l.val.bytes, plen)
    IN  /\ Apply(l)
        /\ ret' = IF l.kind = "ok"
                  THEN Ret("Read", IF r.err = "" THEN "ok" ELSE "err", r.err,
                           SubSeq(l.val.bytes, 1, r.n), FALSE, r.n, FALSE, l.stage, "")
                  ELSE Ret("Read", l.kind, l.err, <<>>, TRUE, 0, FALSE, l.stage, "")

Read ==
    /\ pc = "idle"
    /\ CanLoad
    /\ \E plen \in BufLens : ReadBody(loadContent(content, Body, Header), plen)
    /\ UNCHANGED <<ContentLength, internalError, StatusCode, Header, files, pc, rd, parseFailed>>

TextBody(l) ==
    /\ Apply(l)
    /\ ret' = IF l.kind = "ok"
              THEN Ret("Text", "ok", "", l.val.bytes, FALSE, 0, FALSE, l.stage, "")
              ELSE Ret("Text", l.kind, l.err, <<>>, FALSE, 0, FALSE, l.stage, "")

Text ==
    /\ pc = "idle"
    /\ CanLoad
    /\ TextBody(loadContent(content, Body, Header))
    /\ UNCHANGED <<ContentLength, internalError, StatusCode, Header, files, pc, rd, parseFailed>>

ContentBody(l) ==
    /\ Apply(l)
    /\ ret' = IF l.kind = "ok"
              THEN Ret("Content", "ok", "", l.val.bytes, l.val.isNil, 0, FALSE, l.stage, "")
              ELSE Ret("Content", l.kind, l.err, <<>>, TRUE, 0, FALSE, l.stage, "")

Content ==
    /\ pc = "idle"
    /\ CanLoad
    /\ ContentBody(loadContent(content, Body, Header))
    /\ UNCHANGED <<ContentLength, internalError, StatusCode, Header, files, pc, rd, parseFailed>>

\* Both JSON accessors, e being the parser's error; a nil result goes with it.
JSONBody(op, l, e) ==
    /\ Apply(l)
    /\ parseFailed' = (parseFailed \/ (l.kind = "ok" /\ IsParseFailure(e)))
    /\ ret' = IF l.kind = "ok"
              THEN Ret(op, IF e = "" THEN "ok" ELSE "err", e, <<>>, TRUE, 0, FALSE, l.stage, "")
              ELSE Ret(op, l.kind, l.err, <<>>, TRUE, 0, FALSE, l.stage, "")

\* JSON(v) parses with json.Unmarshal, SimpleJSON with simplejson.NewJson.
JSONParse(l, target) == JSONBody("JSON", l, Unmarshal(l.val.bytes, target))

SimpleJSONParse(l) == JSONBody("SimpleJSON", l, NewJson(l.val.bytes))

\* The error SimpleJSON wraps ("Json error: %w") is recorded by its cause.
SimpleJSON ==
    /\ pc = "idle"
    /\ CanLoad
    /\ SimpleJSONParse(loadContent(content, Body, Header))
    /\ UNCHANGED <<ContentLength, internalError, StatusCode, Header, files, pc, rd>>

JSON ==
    /\ pc = "idle"
    /\ CanLoad
    /\ \E target \in JSONTargets :
          JSONParse(loadContent(content, Body, Header), target)
    /\ UNCHANGED <<ContentLength, internalError, StatusCode, Header, files, pc, rd>>

\* f.Write(content) and the return after it, w being the write's outcome.
SaveWritten(l, path, w) ==
    /\ files' = [files EXCEPT ![path] = w.file]
    /\ ret' = Ret("SaveContent", IF w.err = "" THEN "ok" ELSE "err", w.err,
                  <<>>, TRUE, 0, FALSE, l.stage, path)

\* SaveContent after os.Create gave c: the file exists, empty, from here on.
SaveBody(c, l, path) ==
    IF c.err # ""
    THEN /\ ret' = Ret("SaveContent", "err", c.err, <<>>, TRUE, 0, FALSE, "none", path)
         /\ UNCHANGED <<content, Body, bodyReads, files>>
    ELSE /\ Apply(l)
         /\ IF l.kind # "ok"
            THEN /\ files' = [files EXCEPT ![path] = c.file]
                 /\ ret' = Ret("SaveContent", l.kind, l.err, <<>>, TRUE, 0, FALSE, l.stage, path)
            ELSE \E k \in WriteCuts(Len(l.val.bytes)) :
                    SaveWritten(l, path, FileWrite(c.file, l.val.bytes, k))

SaveContent ==
    /\ pc = "idle"
    /\ CanLoad
    /\ \E path \in Paths :
          SaveBody(OsCreate(path), loadContent(content, Body, Header), path)
    /\ UNCHANGED <<ContentLength, internalError, StatusCode, Header, pc, rd, parseFailed>>

\* Close enters io.Copy(ioutil.Discard, r): Discard's ReadFrom calls r.Read
\* with its buffer until Read reports an error.
Close ==
    /\ pc = "idle"
    /\ CanLoad
    /\ pc' = "copying"
    /\ ret' = Running
    /\ UNCHANGED <<ContentLength, internalError, StatusCode, Header, Body, content, files, rd, bodyReads, parseFailed>>

\* One `readSize, err = r.Read(*bufp)` of the loop; a panic in Read ends Close.
CloseReadBody(l) ==
    /\ Apply(l)
    /\ IF l.kind = "panic"
       THEN /\ pc' = "idle"
            /\ rd' = NoRead
            /\ ret' = Ret("Close", "panic", l.err, <<>>, TRUE, 0, FALSE, l.stage, "")
       ELSE /\ pc' = "copied"
            /\ rd' = IF l.kind = "ok" THEN ReaderRead(l.val.bytes, DiscardBufLen)
                     ELSE [n |-> 0, err |-> l.err]
            /\ ret' = ret

CloseRead ==
    /\ pc = "copying"
    /\ CloseReadBody(loadContent(content, Body, Header))
    /\ UNCHANGED <<ContentLength, internalError, StatusCode, Header, files, parseFailed>>

\* The loop's `if err != nil`, and what Close does once io.Copy has returned:
\* io.EOF ends the copy without error and Close goes on to r.Body.Close().
CloseCheck ==
    /\ pc = "copied"
    /\ IF rd.err = ""
       THEN /\ pc' = "copying"
            /\ UNCHANGED <<Body, ret, rd>>
       ELSE /\ pc' = "idle"
            /\ rd' = NoRead
            /\ IF rd.err = "EOF"
               THEN /\ Body' = BodyClose(Body)
                    /\ ret' = Ret("Close", "ok", "", <<>>, TRUE, 0, FALSE, "none", "")
               ELSE /\ Body' = Body
                    /\ ret' = Ret("Close", "err", rd.err, <<>>, TRUE, 0, FALSE, "none", "")
    /\ UNCHANGED <<ContentLength, internalError, StatusCode, Header, content, files, bodyReads, parseFailed>>

Next ==
    \/ Ok
    \/ Read
    \/ Text
    \/ Content
    \/ SimpleJSON
    \/ JSON
    \/ SaveContent
    \/ Close
    \/ CloseRead
    \/ CloseCheck

Spec == Init /\ [][Next]_vars

\* A Close that has been called keeps running: its loop is not preempted.
FairSpec == Spec /\ WF_vars(CloseRead) /\ WF_vars(CloseCheck)

\* ------------------------------- the earlier implementation (part_000)
\* Response there holds RawResponse, a *bytes.Buffer content (its bytes are
\* the unread part of the buffer) and internalError.

\* The errors the transport may hand to NewResponse.
ConstructionErrors == {"ErrDial"}

\* A test that never finds an error recorded.
NoInternalError(e) == FALSE

\* `r.internalError != nil`
HasInternalError(e) == e # ""

\* NewResponse leaves RawResponse and content nil together, for good.
RawResponseNil(c) == c.isNil

NilDereference == "runtime.nilPointerDereference"

OldStatusCodes == {200, 400}

\* len(p) of the Reads of a consumer: a buffer that takes a gzip header and
\* no more, or io.Copy's whole buffer.
OldBufLens == {Len(GzipHeader), DiscardBufLen}

\* The bodies of the run from every position a Read may have left them at.
Tails(d) == {Drop(d, n) : n \in 0..Len(d)}
LiveSources == [data : UNION {Tails(d) : d \in Bodies}, end : {"EOF", "ErrNet", "ErrBodyClosed"}]
DecompressedLive == [x \in Encodings \X LiveSources |-> Decompress(x[1], x[2])] @@ <<>>

\* r.RawResponse.Body.Read(p) with len(p) = plen > 0: [n, err, Body].
BodyRead(b, src, plen) ==
    IF src.data = <<>> THEN [n |-> 0, err |-> src.end, Body |-> b]
    ELSE [n |-> Min(plen, Len(src.data)), err |-> "",
          Body |-> [b EXCEPT !.pos = b.pos + Min(plen, Len(src.data))]]

\* Close past its test: io.Copy(ioutil.Discard, r) reads the body to its end,
\* its error is dropped, and RawResponse.Body.Close() returns nil.
Drained(b) == BodyClose(Consumed(b))

\* The outcome of the earlier loadContent: the fields after it and how it
\* ended.
OldLoaded(c, b, kind, err) == [content |-> c, Body |-> b, kind |-> kind, err |-> err]

\* loadContent from its switch on, d being what the switch and
\* io.Copy(r.content, reader) make of the body: the buffer keeps what was
\* copied before an error.  The deferred r.Close() drains and closes the body;
\* the deferred reader.Close() dereferences nil when the constructor failed.
OldCopied(c, b, d) ==
    IF d.setup # "" THEN OldLoaded(c, Drained(b), "panic", NilDereference)
    ELSE IF d.err # "" /\ d.err # "EOF"
    THEN OldLoaded([c EXCEPT !.bytes = d.out], Drained(b), "err", d.err)
    ELSE OldLoaded([c EXCEPT !.bytes = d.out], Drained(b), "ok", "")

OldLoadContent(c, b, enc, ie, cl) ==
    IF HasInternalError(ie) THEN OldLoaded(c, b, "err", ie)
    ELSE IF RawResponseNil(c) THEN OldLoaded(c, b, "panic", NilDereference)
    ELSE IF Len(c.bytes) # 0 \/ cl = 0 THEN OldLoaded(c, b, "ok", "")
    ELSE OldCopied(c, b, DecompressedLive[<<enc, BodySource(b)>>])

OldApply(l) ==
    /\ content' = l.content
    /\ Body' = l.Body

\* NewResponse(rawResp, err): with an error every field but internalError
\* keeps its zero value; Header.Get on a nil Header gives "".
NoBody == [data |-> <<>>, pos |-> 0, broken |-> FALSE, closed |-> FALSE]

NewResponse ==
    /\ \/ /\ internalError = ""
          /\ StatusCode \in OldStatusCodes
          /\ Header \in Encodings
          /\ Body \in {[data |-> d, pos |-> 0, broken |-> br, closed |-> FALSE] :
                          d \in Bodies, br \in BOOLEAN}
          /\ ContentLength \in {-1, Len(Body.data)}
          /\ content = [isNil |-> FALSE, bytes |-> <<>>]
       \/ /\ internalError \in ConstructionErrors
          /\ StatusCode = 0
          /\ Header = ""
          /\ Body = NoBody
          /\ ContentLength = 0
          /\ content = NilContent
    /\ files \in {[p \in Paths |-> IF p = "out" THEN f ELSE NoFile] : f \in {NoFile, StaleFile}}
    /\ ret = NoRet
    /\ pc = "idle"
    /\ rd = NoRead
    /\ bodyReads = 0
    /\ parseFailed = FALSE

OldOk ==
    /\ ret' = Ret("Ok", "ok", "", <<>>, TRUE, 0,
                  IF HasInternalError(internalError) THEN FALSE ELSE StatusOk(StatusCode),
                  "none", "")
    /\ UNCHANGED <<ContentLength, internalError, StatusCode, Header, Body, content, files,
                   pc, rd, bodyReads, parseFailed>>

OldClose ==
    /\ IF HasInternalError(internalError)
       THEN /\ ret' = Ret("Close", "err", internalError, <<>>, TRUE, 0, FALSE, "none", "")
            /\ Body' = Body
       ELSE IF RawResponseNil(content)
       THEN /\ ret' = Ret("Close", "panic", NilDereference, <<>>, TRUE, 0, FALSE, "none", "")
            /\ Body' = Body
       ELSE /\ ret' = Ret("Close", "ok", "", <<>>, TRUE, 0, FALSE, "none", "")
            /\ Body' = Drained(Body)
    /\ UNCHANGED <<ContentLength, internalError, StatusCode, Header, content, files,
                   pc, rd, bodyReads, parseFailed>>

\* Read past its test, x being what r.RawResponse.Body.Read(p) gave.
OldReadBody(src, x) ==
    /\ Body' = x.Body
    /\ ret' = Ret("Read", IF x.err = "" THEN "ok" ELSE "err", x.err,
                  SubSeq(src.data, 1, x.n), FALSE, x.n, FALSE, "none", "")

OldRead ==
    /\ IF HasInternalError(internalError)
       THEN /\ ret' = Ret("Read", "err", internalError, <<>>, TRUE, -1, FALSE, "none", "")
            /\ Body' = Body
       ELSE IF RawResponseNil(content)
       THEN /\ ret' = Ret("Read", "panic", NilDereference, <<>>, TRUE, 0, FALSE, "none", "")
            /\ Body' = Body
       ELSE \E plen \in OldBufLens :
               OldReadBody(BodySource(Body), BodyRead(Body, BodySource(Body), plen))
    /\ UNCHANGED <<ContentLength, internalError, StatusCode, Header, content, files,
                   pc, rd, bodyReads, parseFailed>>

OldTextBody(l) ==
    /\ OldApply(l)
    /\ ret' = IF l.kind = "ok"
              THEN Ret("Text", "ok", "", l.content.bytes, FALSE, 0, FALSE, "none", "")
              ELSE Ret("Text", l.kind, l.err, <<>>, FALSE, 0, FALSE, "none", "")

OldText ==
    /\ OldTextBody(OldLoadContent(content, Body, Header, internalError, ContentLength))
    /\ UNCHANGED <<ContentLength, internalError, StatusCode, Header, files,
                   pc, rd, bodyReads, parseFailed>>

\* Content gives nil, not an empty slice, for an empty buffer.
OldContentBody(l) ==
    /\ OldApply(l)
    /\ ret' = IF l.kind = "ok"
              THEN Ret("Content", "ok", "", l.content.bytes, l.content.bytes = <<>>,
                       0, FALSE, "none", "")
              ELSE Ret("Content", l.kind, l.err, <<>>, TRUE, 0, FALSE, "none", "")

OldContent ==
    /\ OldContentBody(OldLoadContent(content, Body, Header, internalError, ContentLength))
    /\ UNCHANGED <<ContentLength, internalError, StatusCode, Header, files,
                   pc, rd, bodyReads, parseFailed>>

\* Json past its test: an error of Content() is recorded in internalError and
\* returned wrapped ("Json error: %w", recorded here by its cause).
JsonBody(l, e) ==
    /\ OldApply(l)
    /\ internalError' = IF l.kind = "err" THEN l.err ELSE internalError
    /\ ret' = IF l.kind = "ok"
              THEN Ret("Json", IF e = "" THEN "ok" ELSE "err", e, <<>>, TRUE, 0, FALSE, "none", "")
              ELSE Ret("Json", l.kind, l.err, <<>>, TRUE, 0, FALSE, "none", "")

JsonParse(l) == JsonBody(l, NewJson(l.content.bytes))

Json ==
    /\ IF HasInternalError(internalError)
       THEN /\ ret' = Ret("Json", "err", internalError, <<>>, TRUE, 0, FALSE, "none", "")
            /\ UNCHANGED <<content, Body, internalError>>
       ELSE JsonParse(OldLoadContent(content, Body, Header, internalError, ContentLength))
    /\ UNCHANGED <<ContentLength, StatusCode, Header, files, pc, rd, bodyReads, parseFailed>>

\* `if r.content.Len() == 0 { return r }; return r.content`: the raw Response,
\* whose Read is the body's, unless the buffer holds unread bytes.
getContent(c) == IF Len(c.bytes) = 0 THEN "r" ELSE "r.content"

\* The return of SaveContent after io.Copy: w is what the write made of the
\* file, end how the reading ended (io.EOF is no error).
OldSaveWritten(path, w, end) ==
    /\ files' = [files EXCEPT ![path] = w.file]
    /\ ret' = Ret("SaveContent",
                  IF w.err = "" /\ end = "EOF" THEN "ok" ELSE "err",
                  IF w.err # "" THEN w.err ELSE IF end = "EOF" THEN "" ELSE end,
                  <<>>, TRUE, 0, FALSE, "none", path)

\* io.Copy(f, r.content): bytes.Buffer.WriteTo hands the unread bytes to
\* f.Write and advances past what was written; written out, the buffer is
\* Reset and left empty.
OldSaveBuffer(c, path) ==
    \E k \in WriteCuts(Len(content.bytes)) :
        /\ OldSaveWritten(path, FileWrite(c.file, content.bytes, k), "EOF")
        /\ content' = [content EXCEPT !.bytes = Drop(content.bytes, k)]

\* io.Copy(f, r): the bytes the body still holds go to the file as they are.
OldSaveRaw(c, path, src) ==
    \E k \in WriteCuts(Len(src.data)) :
        /\ OldSaveWritten(path, FileWrite(c.file, src.data, k), src.end)
        /\ content' = content

\* SaveContent past its test, c being what os.Create gave; the deferred
\* r.Close() drains and closes the body.
OldSaveBody(c, path) ==
    IF c.err # ""
    THEN /\ ret' = Ret("SaveContent", "err", c.err, <<>>, TRUE, 0, FALSE, "none", path)
         /\ UNCHANGED <<content, Body, files>>
    ELSE IF RawResponseNil(content)
    THEN /\ ret' = Ret("SaveContent", "panic", NilDereference, <<>>, TRUE, 0, FALSE, "none", path)
         /\ files' = [files EXCEPT ![path] = c.file]
         /\ UNCHANGED <<content, Body>>
    ELSE /\ Body' = Drained(Body)
         /\ IF getContent(content) = "r.content"
            THEN OldSaveBuffer(c, path)
            ELSE OldSaveRaw(c, path, BodySource(Body))

OldSaveContent ==
    /\ IF HasInternalError(internalError)
       THEN /\ ret' = Ret("SaveContent", "err", internalError, <<>>, TRUE, 0, FALSE, "none", "")
            /\ UNCHANGED <<content, Body, files>>
       ELSE \E path \in Paths : OldSaveBody(OsCreate(path), path)
    /\ UNCHANGED <<ContentLength, internalError, StatusCode, Header,
                   pc, rd, bodyReads, parseFailed>>

OldNext ==
    \/ OldOk
    \/ OldClose
    \/ OldRead
    \/ OldText
    \/ OldContent
    \/ Json
    \/ OldSaveContent

OldSpec == NewResponse /\ [][OldNext]_vars

\* ---------------------------------------------------------------- claims

\* The content accessors, and with Read every caller of loadContent.
ContentOps == {"Content", "Text", "JSON", "SimpleJSON", "SaveContent"}
LoadOps == ContentOps \cup {"Read"}

\* What the server puts on the wire for payload p under a Content-Encoding.
Wire(enc, p) ==
    IF enc = "gzip" THEN GzipEncode(p)
    ELSE IF enc = "deflate" THEN ZlibEncode(p)
    ELSE p

\* C1: once the body has been materialized, no call changes the cached
\* payload, and every Content() or Text() that ends returns exactly those
\* bytes, without error.
C1_CachedPayloadNeverChanges ==
    [][~content.isNil =>
          /\ content' = content
          /\ (ret'.op \in {"Content", "Text"} =>
                 ret'.kind = "ok" /\ ret'.val = content.bytes)]_vars

\* Text() served from the cache after a JSON accessor and SaveContent ran.
C1_Witness ==
    /\ ~content.isNil
    /\ content.bytes # <<>>
    /\ ret.op = "Text" /\ ret.stage = "cached" /\ ret.val = content.bytes
    /\ parseFailed
    /\ files["out"] = [exists |-> TRUE, bytes |-> content.bytes]

\* C2: over the lifetime of a Response at most one loadContent execution goes
\* on to read r.Body, also when the first one fails with a read error.
C2_BodyReadAtMostOnce == bodyReads <= 1

\* C3: once a materialization has failed, the next content-accessing call
\* returns that same error and does not touch the stream again.
C3_FailureIsSticky ==
    [][(/\ ret.op \in ContentOps
        /\ ret.kind = "err"
        /\ ret.stage \in {"setup", "read"}
        /\ ret'.op \in ContentOps)
          => (ret'.kind = "err" /\ ret'.err = ret.err /\ bodyReads' = bodyReads)]_vars

\* C4: when the decompressing reader cannot be constructed, the accessor
\* returns an error to its caller; it does not abort.
C4_SetupFailureReturnsError ==
    (ret.op \in ContentOps /\ ret.stage = "setup") => ret.kind = "err"

\* C5: whenever loadContent has returned, r.Body is closed, under every
\* Content-Encoding.
C5_BodyClosedAfterLoad ==
    (ret.op \in LoadOps /\ ret.stage \in {"cached", "read", "done"} /\ ret.kind # "panic")
        => Body.closed

\* C6: every Close() that has been called returns.
C6_CloseReturns == (pc # "idle") ~> (pc = "idle")

\* C7: a zero-length body whose transport is sound materializes to an empty,
\* non-nil buffer without error, under every Content-Encoding.
C7_EmptyBodyEmptyContent ==
    (Body.data = <<>> /\ ~Body.broken /\ ret.op = "Content")
        => (ret.kind = "ok" /\ ret.val = <<>> /\ ~ret.isNil)

\* C8: a payload that is no JSON makes JSON(v) and SimpleJSON() return an
\* error, and any Content() after such a failure returns the whole decoded
\* payload from the cache, without error, the stream read only once.
C8_ParseFailureKeepsCache ==
    /\ (/\ ret.op \in {"JSON", "SimpleJSON"}
        /\ ret.stage \in {"cached", "done"}
        /\ ~IsValidJSON(content.bytes))
          => ret.kind = "err"
    /\ (parseFailed /\ ret.op = "Content")
          => /\ ret.kind = "ok"
             /\ ~ret.isNil
             /\ ret.stage = "cached"
             /\ Body.data = Wire(Header, ret.val)
             /\ bodyReads = 1

\* C9: after SaveContent(path) has returned nil, the file at path holds the
\* bytes Content() returns, which are the payload the server encoded.
\* The file at path holds what a Content() that gives l returns.
HoldsContent(path, l) ==
    l.kind = "ok" /\ files[path] = [exists |-> TRUE, bytes |-> l.val.bytes]

C9_SavedFileEqualsContent ==
    (ret.op = "SaveContent" /\ ret.kind = "ok")
        => /\ HoldsContent(ret.path, loadContent(content, Body, Header))
           /\ Body.data = Wire(Header, files[ret.path].bytes)

\* SaveContent materialized a deflate body itself and wrote it out.
C9_Witness ==
    /\ ret.op = "SaveContent" /\ ret.kind = "ok" /\ ret.stage = "done"
    /\ Header = "deflate"
    /\ Len(files["out"].bytes) = MaxLen

\* C10: Ok() is true exactly for 200 <= StatusCode < 400 (199, 400 and 500
\* false; 200 and 399 true), reads nothing from the body and leaves the cached
\* content as it is.
C10_OkIsPure ==
    [][ret'.op = "Ok" =>
          /\ ret'.ok = (200 <= StatusCode /\ StatusCode < 400)
          /\ (StatusCode \in {199, 400, 500} => ~ret'.ok)
          /\ (StatusCode \in {200, 399} => ret'.ok)
          /\ content' = content
          /\ Body' = Body
          /\ bodyReads' = bodyReads]_vars

\* Ok() answered true for 399 on a Response whose body had failed to load.
C10_Witness ==
    /\ ret.op = "Ok" /\ ret.ok
    /\ StatusCode = 399
    /\ content.isNil /\ bodyReads = 1

\* C11: under a Content-Encoding that is neither gzip nor deflate (absent
\* included) a Content() that has ended returned the body's bytes as they
\* are, byte for byte and not nil, whenever the transport delivered them
\* without error, and an error otherwise.
C11_IdentityDecoding ==
    (ret.op = "Content" /\ Header \notin {"gzip", "deflate"})
        => IF Body.broken THEN ret.kind = "err"
           ELSE ret.kind = "ok" /\ ret.val = Body.data /\ ~ret.isNil

\* A gzip member sent under "br" has come back from Content() still encoded.
C11_Witness ==
    /\ ret.op = "Content"
    /\ ret.kind = "ok"
    /\ Header = "br"
    /\ \E p \in Payloads : Len(p) = MaxLen /\ ret.val = GzipEncode(p)

\* C13: inside Close, once Read has handed the drain loop some bytes of a
\* non-empty payload, a later Read of the loop reports end-of-stream (and
\* Close then returns).
C13_DrainObservesEOF ==
    (pc = "copied" /\ rd.n > 0) ~> (pc = "copied" /\ rd.err = "EOF")

\* C14: a Read that follows a Read which returned the whole non-empty payload
\* finds the read position at the end: it returns no bytes and io.EOF.
C14_ReadAdvances ==
    [][(/\ ret.op = "Read"
        /\ ret.kind = "ok"
        /\ ret.n > 0
        /\ ret.n = Len(content.bytes)
        /\ ret'.op = "Read")
          => (ret'.n = 0 /\ ret'.err = "EOF")]_vars

\* C15: a Read(p) on a Response without cached content leaves the content
\* absent and takes at most len(p) bytes from the body.
C15_ReadDoesNotMaterialize ==
    [][\A plen \in BufLens :
          (content.isNil /\ ReadBody(loadContent(content, Body, Header), plen))
              => (content'.isNil /\ Body'.pos - Body.pos <= plen)]_vars

\* C19: a SaveContent that returns the error of loadContent leaves every
\* file as it was before the call, in existence and in contents.
C19_FailedSaveKeepsFile ==
    [][(ret'.op = "SaveContent" /\ ret'.kind = "err" /\ ret'.stage = "read")
          => files' = files]_vars

\* C12: in the earlier implementation, whenever internalError is set the
\* content buffer holds no bytes.
C12_ErrorExcludesContent == HasInternalError(internalError) => content.bytes = <<>>

\* C16: in the earlier implementation, a SaveContent that succeeds on a
\* Response whose buffer holds the payload leaves the buffer as it was.
C16_SaveKeepsCache ==
    [][(content.bytes # <<>> /\ ret'.op = "SaveContent" /\ ret'.kind = "ok")
          => content' = content]_vars

\* C17: in the earlier implementation, a SaveContent that succeeds on a
\* Response whose buffer is still empty and whose untouched body is payload p
\* under Content-Encoding gzip or deflate leaves p in the file.
C17_SaveWritesDecoded ==
    [][(/\ content.bytes = <<>>
        /\ Body.pos = 0
        /\ ~Body.closed
        /\ Header \in {"gzip", "deflate"}
        /\ ret'.op = "SaveContent"
        /\ ret'.kind = "ok")
          => \A p \in Payloads :
                Body.data = Wire(Header, p) => files'[ret'.path].bytes = p]_vars

\* C18: in the earlier implementation, a Response built with an error keeps
\* that error; every call on it leaves the body, the buffer and the files as
\* they are; Ok gives false and every other call returns the error.
C18_ConstructionErrorIsPermanent ==
    [][RawResponseNil(content)
          => /\ internalError \in ConstructionErrors
             /\ UNCHANGED <<internalError, content, Body, files>>
             /\ ret'.op = "Ok" => ~ret'.ok
             /\ ret'.op # "Ok" => (ret'.kind = "err" /\ ret'.err = internalError)]_vars

\* SaveContent has been refused on a failed Response and no file exists.
C18_Witness ==
    /\ RawResponseNil(content)
    /\ ret.op = "SaveContent"
    /\ ret.kind = "err"
    /\ ret.err \in ConstructionErrors
    /\ \A p \in Paths : files[p] = NoFile

====
